---------------------------- MODULE Spec2Model ----------------------------
(***************************************************************************)
(* Model of the movico application shell:                                  *)
(*   - VDS (core/VDS.ts): the single lazily created ViteDevServer,         *)
(*     getVDS / getMiddleware / transformTemplate / errorVDS and           *)
(*     shutdownVDS, with its process "exit" and "SIGINT" hooks;            *)
(*   - AppRouter.handleShutdown and Application.start: the shutdown        *)
(*     handler wired to SIGINT and SIGTERM;                                *)
(*   - Controller.register, CoreController's two routes and                *)
(*     AppRouter.initialize: the route table, and the functions a bound    *)
(*     route runs for a request;                                           *)
(*   - Service (core/Service.ts): the property store.                      *)
(* Five specifications share the definitions: Spec (the VDS object under   *)
(* arbitrary callers), SpecProc (the process and its signals), SpecReg     *)
(* (construction and initialize()), SpecServe (initialize() followed by    *)
(* requests) and SpecStore (the property store under arbitrary calls).     *)
(***************************************************************************)
EXTENDS Integers, Sequences, FiniteSets, TLC

\* ------------------------------------------------------------------ bounds
\* createServer calls the model follows (promise / engine ids 1..MaxCreates)
MaxCreates == 3
\* engine requests (getMiddleware / transformTemplate / errorVDS calls)
MaxCallers == 3
\* shutdownVDS calls made directly or by the SIGINT hook of the VDS
MaxShutdowns == 2
\* termination signals delivered to the process
MaxSignals == 2
\* user-supplied controllers, and route descriptors declared by them in all
MaxControllers == 2
MaxRoutes == 3
\* property values of the PropertyStore (0..MaxValue)
MaxValue == 2
\* handlers of a descriptor, and descriptors declared, where requests are served
MaxHandlers == 2
MaxServed == 1

NULL == 0

PromiseIds == 1..MaxCreates
Callers == 1..MaxCallers
ShutdownIds == 1..MaxShutdowns
\* the shutdownVDS call of the router's shutdown handler, and the one of the
\* VDS "exit" hook
RouterSd == MaxShutdowns + 1
ExitSd == MaxShutdowns + 2
AllSd == 1..(MaxShutdowns + 2)

\* process.env.NODE_ENV
Envs == {"development", "production", "unset"}

VARIABLES
    \* ---- VDS fields (VDS.ts:41-42)
    promiseVDS,     \* NULL or the id of the promise stored by getVDS
    instanceVDS,    \* NULL or the id of the engine held as live instance
    \* ---- the engine boundary: createServer(...) promises and engines
    promiseSt,      \* promise id -> "none" | "pending" | "resolved" | "rejected"
    closeCalls,     \* engine id -> number of close() calls made on it
    closeDone,      \* engine id -> a close() call on it has settled
    \* ---- calls in progress
    req,            \* caller -> the engine request it makes
    sd,             \* shutdown id -> the shutdownVDS call
    quiet,          \* a shutdownVDS call has returned and since then no engine
                    \* request was made and no creation settled
    \* ---- the process (Application.ts, AppRouter.handleShutdown)
    env,            \* NODE_ENV
    app,            \* "new" | "constructed" | "listening" | "exited"
    shuttingDown,   \* AppRouter.shuttingDown
    listener,       \* "none" | "listening" | "closing" | "closed" | "failed"
    cb,             \* server.close callback: "none" | "awaitVDS" | "done"
    exitCode,       \* -1 while running, else the code given to process.exit
    signals,        \* termination signals delivered so far
    handlerCalls,   \* invocations of the shutdown handler
    closeInits,     \* server.close calls made by the handler
    routerSdCalls,  \* shutdownVDS calls made by the handler's callback
    \* ---- registration (Controller.register, AppRouter.initialize)
    decl,           \* the descriptors of the user-supplied controllers, in
                    \* controller order then declaration order
    table,          \* the router's table, in binding order
    initPc,         \* initialize(): "new" | "controllers" | "serving" |
                    \* "views" | "fallback" | "done"
    ri,             \* next descriptor of decl to register
    si,             \* next CoreController route to register
    ctrlFailed,     \* registerControllers caught an error
    servingFailed,  \* registerServing caught an error
    srLog,          \* per descriptor of decl: the calls of its shouldRegister
                    \* predicate made so far and what the last one returned
    \* ---- the PropertyStore (Service.ts)
    properties,     \* Service.properties: key -> value or Absent
    validators,     \* Service.validators: key -> validator or NoValidator
    impl,           \* the hooks the subclass implements
    lastCall,       \* the last call made on the store: operation, arguments,
                    \* outcome, and the hooks it invoked
    \* ---- a request travelling through the router
    rq              \* the request: method, path, the table entry and chain
                    \* position it is at, the functions invoked for it and
                    \* the next(error) calls made, in order, and its outcome

vdsVars == <<promiseVDS, instanceVDS, promiseSt, closeCalls, closeDone, req, sd, quiet>>

procVars == <<env, app, shuttingDown, listener, cb, exitCode, signals,
              handlerCalls, closeInits, routerSdCalls>>

regVars == <<decl, table, initPc, ri, si, ctrlFailed, servingFailed, srLog>>

storeVars == <<properties, validators, impl, lastCall>>

vars == <<vdsVars, procVars, regVars, storeVars, rq>>

\* ------------------------------------------------------------ VDS helpers
IdleReq == [pc |-> "idle", promise |-> NULL, early |-> FALSE,
            created |-> FALSE, result |-> "none", engine |-> NULL]

IdleSd == [pc |-> "idle", origin |-> "none", engine |-> NULL,
           closeOk |-> "none", result |-> "none"]

\* number of createServer calls made so far
CreateCalls == Cardinality({p \in PromiseIds : promiseSt[p] # "none"})

\* creation attempts in flight
InFlight == {p \in PromiseIds : promiseSt[p] = "pending"}

\* engines that were created and on which no close() has completed
LiveEngines == {e \in PromiseIds : promiseSt[e] = "resolved" /\ ~closeDone[e]}

\* the first creation of the process has not settled yet
FirstCreationOpen == promiseSt[1] \in {"none", "pending"}

\* ---------------------------------------------------------------- getVDS
\* getVDS without the `if (this.promiseVDS)` branch: every request that finds
\* no instance calls createServer
getVDS_NoPromiseCheck(c) ==
    /\ req[c].pc = "idle"
    /\ \A b \in Callers : b < c => req[b].pc # "idle"
    /\ LET early == instanceVDS = NULL /\ FirstCreationOpen
       IN
       IF instanceVDS # NULL
       THEN /\ req' = [req EXCEPT ![c] = [pc |-> "done", promise |-> NULL,
                                          early |-> early, created |-> FALSE,
                                          result |-> "ok", engine |-> instanceVDS]]
            /\ UNCHANGED <<promiseVDS, promiseSt>>
       ELSE /\ CreateCalls < MaxCreates
            /\ LET n == CreateCalls + 1
               IN /\ promiseSt' = [promiseSt EXCEPT ![n] = "pending"]
                  /\ promiseVDS' = n
                  /\ req' = [req EXCEPT ![c] = [pc |-> "waiting",
                                                promise |-> n, early |-> early,
                                                created |-> TRUE,
                                                result |-> "none", engine |-> NULL]]
    /\ quiet' = FALSE
    /\ UNCHANGED <<instanceVDS, closeCalls, closeDone, sd>>

\* VDS.getVDS called for the c-th engine request (calls are numbered in the
\* order they are made).
\*   instanceVDS set      -> the instance is returned
\*   promiseVDS set       -> the stored promise is returned
\*   otherwise            -> createServer is called and its promise stored
getVDS(c) ==
    /\ req[c].pc = "idle"
    /\ \A b \in Callers : b < c => req[b].pc # "idle"
    /\ LET early == instanceVDS = NULL /\ FirstCreationOpen
       IN
       IF instanceVDS # NULL
       THEN /\ req' = [req EXCEPT ![c] = [pc |-> "done", promise |-> NULL,
                                          early |-> early, created |-> FALSE,
                                          result |-> "ok", engine |-> instanceVDS]]
            /\ UNCHANGED <<promiseVDS, promiseSt>>
       ELSE IF promiseVDS # NULL
       THEN /\ req' = [req EXCEPT ![c] = [pc |-> "waiting",
                                          promise |-> promiseVDS, early |-> early,
                                          created |-> FALSE,
                                          result |-> "none", engine |-> NULL]]
            /\ UNCHANGED <<promiseVDS, promiseSt>>
       ELSE /\ CreateCalls < MaxCreates
            /\ LET n == CreateCalls + 1
               IN /\ promiseSt' = [promiseSt EXCEPT ![n] = "pending"]
                  /\ promiseVDS' = n
                  /\ req' = [req EXCEPT ![c] = [pc |-> "waiting",
                                                promise |-> n, early |-> early,
                                                created |-> TRUE,
                                                result |-> "none", engine |-> NULL]]
    /\ quiet' = FALSE
    /\ UNCHANGED <<instanceVDS, closeCalls, closeDone, sd>>

getMiddleware(c) == getVDS(c)

transformTemplate(c) == getVDS(c)

errorVDS(c) == getVDS(c)

\* createServer's promise p settles; the .then / .catch callbacks of getVDS run.
CreateSettle(p, ok) ==
    /\ promiseSt[p] = "pending"
    /\ promiseSt' = [promiseSt EXCEPT ![p] = IF ok THEN "resolved" ELSE "rejected"]
    /\ instanceVDS' = IF ok THEN p ELSE NULL
    /\ quiet' = FALSE
    /\ UNCHANGED <<promiseVDS, closeCalls, closeDone, req, sd>>

\* a caller awaiting a settled promise resumes with its outcome
Deliver(c) ==
    /\ req[c].pc = "waiting"
    /\ promiseSt[req[c].promise] \in {"resolved", "rejected"}
    /\ req' = [req EXCEPT ![c].pc = "done",
                          ![c].result = IF promiseSt[req[c].promise] = "resolved"
                                        THEN "ok" ELSE "err",
                          ![c].engine = IF promiseSt[req[c].promise] = "resolved"
                                        THEN req[c].promise ELSE NULL]
    /\ UNCHANGED <<promiseVDS, instanceVDS, promiseSt, closeCalls, closeDone, sd, quiet>>

\* ------------------------------------------------------------ shutdownVDS
\* shutdownVDS up to its first suspension: returns at once when there is no
\* instance, otherwise calls close() on the instance and awaits it.
ShutdownBegin(s, origin) ==
    /\ sd[s].pc = "idle"
    /\ IF instanceVDS = NULL
       THEN /\ sd' = [sd EXCEPT ![s] = [pc |-> "done", origin |-> origin,
                                        engine |-> NULL, closeOk |-> "none",
                                        result |-> "ok"]]
            /\ quiet' = TRUE
            /\ UNCHANGED closeCalls
       ELSE /\ sd' = [sd EXCEPT ![s] = [pc |-> "closing", origin |-> origin,
                                        engine |-> instanceVDS, closeOk |-> "none",
                                        result |-> "none"]]
            /\ closeCalls' = [closeCalls EXCEPT ![instanceVDS] = @ + 1]
            /\ UNCHANGED quiet
    /\ UNCHANGED <<promiseVDS, instanceVDS, promiseSt, closeDone, req>>

\* shutdownVDS whose finally block does not clear instanceVDS
ShutdownFinish_KeepInstance(s, ok) ==
    /\ sd[s].pc = "closing"
    /\ sd' = [sd EXCEPT ![s].pc = "done",
                        ![s].closeOk = IF ok THEN "ok" ELSE "failed",
                        ![s].result = "ok"]
    /\ closeDone' = [closeDone EXCEPT ![sd[s].engine] = TRUE]
    /\ promiseVDS' = NULL
    /\ quiet' = TRUE
    /\ UNCHANGED <<instanceVDS, promiseSt, closeCalls, req>>

\* shutdownVDS whose catch block rethrows the close error
ShutdownFinish_Rethrow(s, ok) ==
    /\ sd[s].pc = "closing"
    /\ sd' = [sd EXCEPT ![s].pc = "done",
                        ![s].closeOk = IF ok THEN "ok" ELSE "failed",
                        ![s].result = IF ok THEN "ok" ELSE "err"]
    /\ closeDone' = [closeDone EXCEPT ![sd[s].engine] = TRUE]
    /\ instanceVDS' = NULL
    /\ promiseVDS' = NULL
    /\ quiet' = TRUE
    /\ UNCHANGED <<promiseSt, closeCalls, req>>

\* the awaited close() settles: try / catch / finally of shutdownVDS
ShutdownFinish(s, ok) ==
    /\ sd[s].pc = "closing"
    /\ sd' = [sd EXCEPT ![s].pc = "done",
                        ![s].closeOk = IF ok THEN "ok" ELSE "failed",
                        ![s].result = "ok"]
    /\ closeDone' = [closeDone EXCEPT ![sd[s].engine] = TRUE]
    /\ instanceVDS' = NULL
    /\ promiseVDS' = NULL
    /\ quiet' = TRUE
    /\ UNCHANGED <<promiseSt, closeCalls, req>>

\* the s-th call of shutdownVDS made directly or by the SIGINT hook (calls
\* are numbered in the order they are made)
NextSd(s) == \A b \in ShutdownIds : b < s => sd[b].pc # "idle"

\* a direct call of the public method
shutdownVDS(s) == NextSd(s) /\ ShutdownBegin(s, "api")

\* ------------------------------------------------------------ registration
\* RequestMethod (types: 'get' | 'post' | 'put' | 'patch' | 'delete' | 'options')
RequestMethods == {"get", "post", "put", "patch", "delete", "options"}

isRequestMethod(method) == method \in RequestMethods

\* the route descriptors user controllers declare in the model:
\*   a production-scoped and a development-scoped GET /a, a POST /b with a
\*   shouldRegister predicate, a descriptor with an unrecognized method, and
\*   one with an unrecognized method, a predicate and the production scope.
\* Fields: shouldRegister / validationFn / errorFn tell whether the function
\* is present, nHandlers is the number of handlers, handlers the state of
\* their promises.
Descriptors ==
    { [method |-> "get", path |-> "/a", envScope |-> "production",
       shouldRegister |-> FALSE, handlers |-> "ready",
       validationFn |-> FALSE, errorFn |-> FALSE, nHandlers |-> 0],
      [method |-> "get", path |-> "/a", envScope |-> "development",
       shouldRegister |-> FALSE, handlers |-> "ready",
       validationFn |-> FALSE, errorFn |-> FALSE, nHandlers |-> 0],
      [method |-> "post", path |-> "/b", envScope |-> "none",
       shouldRegister |-> TRUE, handlers |-> "ready",
       validationFn |-> FALSE, errorFn |-> FALSE, nHandlers |-> 0],
      [method |-> "trace", path |-> "/c", envScope |-> "none",
       shouldRegister |-> FALSE, handlers |-> "ready",
       validationFn |-> FALSE, errorFn |-> FALSE, nHandlers |-> 0],
      [method |-> "trace", path |-> "/c", envScope |-> "production",
       shouldRegister |-> TRUE, handlers |-> "ready",
       validationFn |-> FALSE, errorFn |-> FALSE, nHandlers |-> 0] }

\* CoreController.routesInternal: production GET * and development GET *,
\* whose handlers hold the promise of this.VDS.getMiddleware()
CoreRoutes ==
    << [method |-> "get", path |-> "*", envScope |-> "production",
        shouldRegister |-> FALSE, handlers |-> "ready",
        validationFn |-> FALSE, errorFn |-> TRUE, nHandlers |-> 1],
       [method |-> "get", path |-> "*", envScope |-> "development",
        shouldRegister |-> FALSE, handlers |-> "vds",
        validationFn |-> FALSE, errorFn |-> FALSE, nHandlers |-> 2] >>

\* the CoreController is controller 0; user controllers are 1..MaxControllers
CoreCtrl == 0

\* testView: the view map, in the order of its keys
ViewPaths == << "/", "/test" >>

\* an envScope test that filters only production-scoped descriptors
EnvScopeSkips_OneWay(d) == d.envScope = "production" /\ env # "production"

\* `envScope && envScope !== process.env.NODE_ENV` (an unset NODE_ENV is
\* undefined and equals no scope)
EnvScopeSkips(d) == d.envScope # "none" /\ d.envScope # env

\* Application.getEnv: NODE_ENV ?? 'development'
getEnv == IF env = "unset" THEN "development" ELSE env

\* `await Promise.all(handlers ?? [])`: whether it is still pending, and
\* whether it rejects
HandlersPending(d) == d.handlers = "vds" /\ promiseSt[1] = "pending"

HandlersReject(d) == d.handlers = "vds" /\ promiseSt[1] = "rejected"

\* the iteration for d is suspended at `await Promise.all(handlers)`
RegisterSuspended(d, should) ==
    /\ ~(d.shouldRegister /\ ~should)
    /\ ~EnvScopeSkips(d)
    /\ isRequestMethod(d.method)
    /\ HandlersPending(d)

\* register() logging an unrecognized method and going on to the next route
RegisterOutcome_SkipInvalid(d, should) ==
    IF d.shouldRegister /\ ~should THEN "skip"
    ELSE IF EnvScopeSkips(d) THEN "skip"
    ELSE IF ~isRequestMethod(d.method) THEN "skip"
    ELSE IF HandlersReject(d) THEN "throw"
    ELSE "bind"

\* one iteration of the loop of register() for descriptor d, where should is
\* what shouldRegister() returned: "skip" (continue), "throw", or "bind"
RegisterOutcome(d, should) ==
    IF d.shouldRegister /\ ~should THEN "skip"
    ELSE IF EnvScopeSkips(d) THEN "skip"
    ELSE IF ~isRequestMethod(d.method) THEN "throw"
    ELSE IF HandlersReject(d) THEN "throw"
    ELSE "bind"

\* a shouldRegister predicate called only for a route of the environment
EvaluatesShouldRegister_AfterScope(d) == d.shouldRegister /\ ~EnvScopeSkips(d)

\* whether the iteration for d calls shouldRegister: `shouldRegister &&
\* !(await shouldRegister())` is the first test of the iteration
EvaluatesShouldRegister(d) == d.shouldRegister

\* srLog after the iteration for descriptor i of decl
LogShouldRegister(i, should) ==
    IF EvaluatesShouldRegister(decl[i].d)
    THEN [srLog EXCEPT ![i] = [calls |-> @.calls + 1,
                               result |-> IF should THEN "true" ELSE "false"]]
    ELSE srLog

\* the entry this.router[method](path, ...) adds for descriptor idx of ctrl
RouteEntry(ctrl, idx, d) ==
    [kind |-> "route", ctrl |-> ctrl, idx |-> idx, method |-> d.method,
     path |-> d.path, envScope |-> d.envScope]

ViewEntry(i) ==
    [kind |-> "view", ctrl |-> CoreCtrl, idx |-> i, method |-> "get",
     path |-> ViewPaths[i], envScope |-> "none"]

FallbackEntry ==
    [kind |-> "fallback", ctrl |-> CoreCtrl, idx |-> 0, method |-> "all",
     path |-> "*", envScope |-> "none"]

\* whether a table entry takes a request for method m and path p
Matches(e, m, p) ==
    \/ e.kind = "fallback"
    \/ e.method = m /\ (e.path = "*" \/ e.path = p)

\* the index of the entry that answers the request: the first that matches
Dispatch(t, m, p) ==
    IF \E i \in DOMAIN t : Matches(t[i], m, p)
    THEN CHOOSE i \in DOMAIN t :
             /\ Matches(t[i], m, p)
             /\ \A j \in DOMAIN t : j < i => ~Matches(t[j], m, p)
    ELSE 0

\* AppRouter.initialize is called (Application.start)
InitializeBegin ==
    /\ app = "constructed"
    /\ initPc = "new"
    /\ initPc' = "controllers"
    /\ UNCHANGED <<decl, table, ri, si, ctrlFailed, servingFailed, srLog>>

\* registerControllers catching inside its loop: after a failure it goes on
\* with what follows
RegisterUserRoute_CatchInside(should) ==
    /\ initPc = "controllers"
    /\ ri <= Len(decl)
    /\ LET d == decl[ri].d
           out == RegisterOutcome(d, should)
       IN
       /\ ~RegisterSuspended(d, should)
       /\ d.shouldRegister \/ should
       /\ IF out = "throw"
          THEN /\ ctrlFailed' = TRUE
               /\ ri' = ri + 1
               /\ UNCHANGED <<table, initPc>>
          ELSE /\ table' = IF out = "bind"
                           THEN Append(table, RouteEntry(decl[ri].ctrl, ri, d))
                           ELSE table
               /\ ri' = ri + 1
               /\ UNCHANGED <<ctrlFailed, initPc>>
    /\ srLog' = LogShouldRegister(ri, should)
    /\ UNCHANGED <<decl, si, servingFailed>>

\* registerControllers binding each route in front of the earlier ones
RegisterUserRoute_Prepend(should) ==
    /\ initPc = "controllers"
    /\ ri <= Len(decl)
    /\ LET d == decl[ri].d
           out == RegisterOutcome(d, should)
       IN
       /\ ~RegisterSuspended(d, should)
       /\ d.shouldRegister \/ should
       /\ IF out = "throw"
          THEN /\ ctrlFailed' = TRUE
               /\ initPc' = "serving"
               /\ UNCHANGED <<table, ri>>
          ELSE /\ table' = IF out = "bind"
                           THEN <<RouteEntry(decl[ri].ctrl, ri, d)>> \o table
                           ELSE table
               /\ ri' = ri + 1
               /\ UNCHANGED <<ctrlFailed, initPc>>
    /\ srLog' = LogShouldRegister(ri, should)
    /\ UNCHANGED <<decl, si, servingFailed>>

\* registerControllers: one iteration of register() of the user controller
\* that declares decl[ri]; an error ends the whole phase (the catch is
\* outside the loop over the controllers)
RegisterUserRoute(should) ==
    /\ initPc = "controllers"
    /\ ri <= Len(decl)
    /\ LET d == decl[ri].d
           out == RegisterOutcome(d, should)
       IN
       /\ ~RegisterSuspended(d, should)
       /\ d.shouldRegister \/ should
       /\ IF out = "throw"
          THEN /\ ctrlFailed' = TRUE
               /\ initPc' = "serving"
               /\ UNCHANGED <<table, ri>>
          ELSE /\ table' = IF out = "bind"
                           THEN Append(table, RouteEntry(decl[ri].ctrl, ri, d))
                           ELSE table
               /\ ri' = ri + 1
               /\ UNCHANGED <<ctrlFailed, initPc>>
    /\ srLog' = LogShouldRegister(ri, should)
    /\ UNCHANGED <<decl, si, servingFailed>>

\* registerControllers returns after the last controller
RegisterControllersDone ==
    /\ initPc = "controllers"
    /\ ri > Len(decl)
    /\ initPc' = "serving"
    /\ UNCHANGED <<decl, table, ri, si, ctrlFailed, servingFailed, srLog>>

\* registerServing without its try / catch: the error leaves initialize()
RegisterServingRoute_Uncaught ==
    /\ initPc = "serving"
    /\ si <= Len(CoreRoutes)
    /\ LET d == CoreRoutes[si]
           out == RegisterOutcome(d, TRUE)
       IN
       /\ ~RegisterSuspended(d, TRUE)
       /\ IF out = "throw"
          THEN /\ servingFailed' = TRUE
               /\ initPc' = "failed"
               /\ UNCHANGED <<table, si>>
          ELSE /\ table' = IF out = "bind"
                           THEN Append(table, RouteEntry(CoreCtrl, si, d))
                           ELSE table
               /\ si' = si + 1
               /\ UNCHANGED <<servingFailed, initPc>>
    /\ UNCHANGED <<decl, ri, ctrlFailed, srLog>>

\* registerServing: one iteration of register() of the CoreController
RegisterServingRoute ==
    /\ initPc = "serving"
    /\ si <= Len(CoreRoutes)
    /\ LET d == CoreRoutes[si]
           out == RegisterOutcome(d, TRUE)
       IN
       /\ ~RegisterSuspended(d, TRUE)
       /\ IF out = "throw"
          THEN /\ servingFailed' = TRUE
               /\ initPc' = "views"
               /\ UNCHANGED <<table, si>>
          ELSE /\ table' = IF out = "bind"
                           THEN Append(table, RouteEntry(CoreCtrl, si, d))
                           ELSE table
               /\ si' = si + 1
               /\ UNCHANGED <<servingFailed, initPc>>
    /\ UNCHANGED <<decl, ri, ctrlFailed, srLog>>

RegisterServingDone ==
    /\ initPc = "serving"
    /\ si > Len(CoreRoutes)
    /\ initPc' = "views"
    /\ UNCHANGED <<decl, table, ri, si, ctrlFailed, servingFailed, srLog>>

\* registerViews: nothing when NODE_ENV is 'development', else one GET route
\* per view path
registerViews ==
    /\ initPc = "views"
    /\ table' = IF env = "development"
                THEN table
                ELSE table \o [i \in 1..Len(ViewPaths) |-> ViewEntry(i)]
    /\ initPc' = "fallback"
    /\ UNCHANGED <<decl, ri, si, ctrlFailed, servingFailed, srLog>>

\* registerFallback: router.use(404 handler)
registerFallback ==
    /\ initPc = "fallback"
    /\ table' = Append(table, FallbackEntry)
    /\ initPc' = "done"
    /\ UNCHANGED <<decl, ri, si, ctrlFailed, servingFailed, srLog>>

\* the controllers given to the router: up to MaxRoutes descriptors, each
\* owned by one of the controllers 1..MaxControllers, in controller order
\* (the controllers are numbered as supplied and each declares a route)
DeclLists ==
    UNION { { f \in [1..n -> [ctrl : 1..MaxControllers, d : Descriptors]] :
                /\ n > 0 => f[1].ctrl = 1
                /\ \A i \in 1..(n - 1) :
                      f[i + 1].ctrl \in {f[i].ctrl, f[i].ctrl + 1} }
            : n \in 0..MaxRoutes }

InitRegFrom(lists) ==
    /\ decl \in lists
    /\ table = << >>
    /\ initPc = "new"
    /\ ri = 1
    /\ si = 1
    /\ ctrlFailed = FALSE
    /\ servingFailed = FALSE
    /\ srLog = [i \in DOMAIN decl |-> [calls |-> 0, result |-> "none"]]

InitReg == InitRegFrom(DeclLists)

\* no controllers are supplied (Application.ts:12)
InitRegNone ==
    /\ InitReg
    /\ decl = << >>

\* -------------------------------------------------------- serving requests
\* the descriptors declared where requests are served: GET /a with or
\* without validationFn and errorFn and with 0..MaxHandlers handlers, and
\* GET /a with a shouldRegister predicate, unscoped or production-scoped
ServeDescriptors ==
    { [method |-> "get", path |-> "/a", envScope |-> "none",
       shouldRegister |-> FALSE, handlers |-> "ready",
       validationFn |-> v, errorFn |-> e, nHandlers |-> n] :
         v \in BOOLEAN, e \in BOOLEAN, n \in 0..MaxHandlers }
    \cup
    { [method |-> "get", path |-> "/a", envScope |-> scope,
       shouldRegister |-> TRUE, handlers |-> "ready",
       validationFn |-> FALSE, errorFn |-> FALSE, nHandlers |-> 0] :
         scope \in {"none", "production"} }

\* one controller declaring up to MaxServed of them
ServeDecls ==
    UNION { [1..n -> [ctrl : {1}, d : ServeDescriptors]] : n \in 0..MaxServed }

\* the requests the model sends
ReqMethods == {"get", "post"}

ReqPaths == {"/", "/test", "/a", "/missing"}

Item(fn, n) == [fn |-> fn, n |-> n]

\* the validation middleware pushed after the handlers
Chain_ValidateLast(d) ==
    [i \in 1..d.nHandlers |-> Item("handler", i)]
    \o (IF d.validationFn THEN << Item("validate", 0) >> ELSE << >>)
    \o << Item("endpoint", 0) >>

\* the functions register() gives to this.router[method] for descriptor d:
\* the validation middleware (unshift) when validationFn is present, the
\* awaited handlers in their order, the endpoint wrapper
Chain(d) ==
    (IF d.validationFn THEN << Item("validate", 0) >> ELSE << >>)
    \o [i \in 1..d.nHandlers |-> Item("handler", i)]
    \o << Item("endpoint", 0) >>

\* the descriptor a route entry of the table was bound for
DescOf(e) == IF e.ctrl = CoreCtrl THEN CoreRoutes[e.idx] ELSE decl[e.idx].d

\* the functions of a table entry
EntryChain(e) ==
    IF e.kind = "route" THEN Chain(DescOf(e))
    ELSE IF e.kind = "view" THEN << Item("view", 0) >>
    ELSE << Item("fallback", 0) >>

\* the first entry after entry k that takes the request, or 0
DispatchFrom(t, k, m, p) ==
    IF \E i \in DOMAIN t : i > k /\ Matches(t[i], m, p)
    THEN CHOOSE i \in DOMAIN t :
             /\ i > k
             /\ Matches(t[i], m, p)
             /\ \A j \in DOMAIN t : (j > k /\ j < i) => ~Matches(t[j], m, p)
    ELSE 0

IdleRq == [pc |-> "idle", method |-> "", path |-> "", entry |-> 0, pos |-> 0,
           log |-> << >>, out |-> "none"]

\* the function the request is about to enter
Current == EntryChain(table[rq.entry])[rq.pos]

AtItem(fn) == rq.pc = "running" /\ Current.fn = fn

\* a log entry: function fn (number n) of the current entry ran with result
\* res; fn "nextError" is a call of next(error), res naming the error
Logged(fn, n, res) == [entry |-> rq.entry, fn |-> fn, n |-> n, res |-> res]

\* the request ends
Finish(log, out) == rq' = [rq EXCEPT !.pc = "done", !.log = log, !.out = out]

\* next(): the next function of the entry, or the next entry that matches
Continue(log) ==
    IF rq.pos < Len(EntryChain(table[rq.entry]))
    THEN rq' = [rq EXCEPT !.pos = @ + 1, !.log = log]
    ELSE LET k == DispatchFrom(table, rq.entry, rq.method, rq.path)
         IN IF k = 0
            THEN Finish(log, "unhandled")
            ELSE rq' = [rq EXCEPT !.entry = k, !.pos = 1, !.log = log]

\* a request arrives after initialize() (one request is followed at a time)
Request(m, p) ==
    /\ initPc = "done"
    /\ rq.pc # "running"
    /\ Dispatch(table, m, p) # 0
    /\ rq' = [pc |-> "running", method |-> m, path |-> p,
              entry |-> Dispatch(table, m, p), pos |-> 1,
              log |-> << >>, out |-> "none"]

\* the validation middleware: try { await validationFn(req); next() }
\* catch (error) { next(error) }
RunValidate(ok) ==
    /\ AtItem("validate")
    /\ IF ok
       THEN Continue(Append(rq.log, Logged("validate", 0, "ok")))
       ELSE Finish(rq.log \o << Logged("validate", 0, "fail"),
                                Logged("nextError", 0, "validation") >>,
                   "error")

\* a handler: it calls next(), ends the response, or calls next(error)
RunHandler(outcome) ==
    /\ AtItem("handler")
    /\ LET n == Current.n
       IN IF outcome = "next"
          THEN Continue(Append(rq.log, Logged("handler", n, "next")))
          ELSE IF outcome = "respond"
          THEN Finish(Append(rq.log, Logged("handler", n, "respond")), "responded")
          ELSE Finish(rq.log \o << Logged("handler", n, "error"),
                                   Logged("nextError", 0, "handler") >>,
                      "error")

\* the route is the development GET * of the CoreController
AtDevRoute ==
    /\ table[rq.entry].kind = "route"
    /\ table[rq.entry].ctrl = CoreCtrl
    /\ CoreRoutes[table[rq.entry].idx].envScope = "development"

\* what an endpointFn can do: end the response, call next(), call
\* next(error) itself, or throw / reject. The two endpoints of the
\* CoreController catch their errors and forward them.
EndpointOutcomes(e) ==
    IF e.ctrl = CoreCtrl THEN {"respond", "forward"}
    ELSE {"respond", "next", "forward", "throw"}

\* the endpoint wrapper: try { await endpointFn(req, res, next) }
\* catch (error) { if (errorFn) await errorFn(error, ...); next(error) }.
\* hookOk: errorFn returns normally. When errorFn throws or rejects, the
\* wrapper's promise rejects before next(error) and the router, which does
\* not look at the promise, is never told: the request gets no answer.
RunEndpoint(outcome, hookOk) ==
    /\ AtItem("endpoint")
    /\ ~AtDevRoute
    /\ outcome \in EndpointOutcomes(table[rq.entry])
    /\ LET d == DescOf(table[rq.entry])
       IN
       /\ hookOk \/ (outcome = "throw" /\ d.errorFn)
       /\ IF outcome = "respond"
          THEN Finish(Append(rq.log, Logged("endpoint", 0, "respond")), "responded")
          ELSE IF outcome = "next"
          THEN Continue(Append(rq.log, Logged("endpoint", 0, "next")))
          ELSE IF outcome = "forward"
          THEN Finish(rq.log \o << Logged("endpoint", 0, "forward"),
                                   Logged("nextError", 0, "forwarded") >>,
                      "error")
          ELSE IF ~d.errorFn
          THEN Finish(rq.log \o << Logged("endpoint", 0, "throw"),
                                   Logged("nextError", 0, "endpoint") >>,
                      "error")
          ELSE IF hookOk
          THEN Finish(rq.log \o << Logged("endpoint", 0, "throw"),
                                   Logged("onError", 0, "ok"),
                                   Logged("nextError", 0, "endpoint") >>,
                      "error")
          ELSE Finish(rq.log \o << Logged("endpoint", 0, "throw"),
                                   Logged("onError", 0, "fail") >>,
                      "hung")

\* the endpoint of the development route: this.VDS.transformTemplate of the
\* live engine, then the template is sent, or the error is forwarded
RunDevEndpoint(c, ok) ==
    /\ AtItem("endpoint")
    /\ AtDevRoute
    /\ instanceVDS # NULL
    /\ transformTemplate(c)
    /\ IF ok
       THEN Finish(Append(rq.log, Logged("endpoint", 0, "respond")), "responded")
       ELSE Finish(rq.log \o << Logged("endpoint", 0, "forward"),
                                Logged("nextError", 0, "forwarded") >>,
                   "error")

\* a view route: the page is rendered and sent, or next(error)
RunView(ok) ==
    /\ AtItem("view")
    /\ IF ok
       THEN Finish(Append(rq.log, Logged("view", 0, "respond")), "responded")
       ELSE Finish(rq.log \o << Logged("view", 0, "fail"),
                                Logged("nextError", 0, "render") >>,
                   "error")

\* the fallback sends the 404 page
RunFallback ==
    /\ AtItem("fallback")
    /\ Finish(Append(rq.log, Logged("fallback", 0, "respond")), "notFound")

\* ---------------------------------------------------------- PropertyStore
\* property names and values the model uses; Absent is a missing property
Keys == {"a", "b"}

Values == 0..MaxValue

Absent == -1

\* the absent marker getValue returns
Null == -2

\* validators the model registers, and no validator
NoValidator == "none"

ValidatorFns == {"isPositive", "isEven"}

\* validator(value)
Accepts(validator, value) ==
    IF validator = "isPositive" THEN value > 0 ELSE value % 2 = 0

Hooks == {"onSet", "onRemove", "onReset"}

\* this.onX?.(...): the invocations made, none when the hook is not implemented
Invoke(hook, args) == IF hook \in impl THEN << <<hook>> \o args >> ELSE << >>

\* getValue: properties[key] ?? null
getValue(props, key) == IF props[key] = Absent THEN Null ELSE props[key]

\* hasProp: key in properties
hasProp(props, key) == props[key] # Absent

\* setValue that stores the value before it runs the validator
setValue_StoreFirst(key, newValue) ==
    /\ properties' = [properties EXCEPT ![key] = newValue]
    /\ IF validators[key] # NoValidator /\ ~Accepts(validators[key], newValue)
       THEN lastCall' = [op |-> "setValue", key |-> key, value |-> newValue,
                         result |-> "ValidationError", hooks |-> << >>]
       ELSE lastCall' = [op |-> "setValue", key |-> key, value |-> newValue,
                         result |-> "ok",
                         hooks |-> Invoke("onSet", <<key, newValue>>)]
    /\ UNCHANGED <<validators, impl>>

\* setValue(key, newValue)
setValue(key, newValue) ==
    /\ IF validators[key] # NoValidator /\ ~Accepts(validators[key], newValue)
       THEN /\ lastCall' = [op |-> "setValue", key |-> key, value |-> newValue,
                            result |-> "ValidationError", hooks |-> << >>]
            /\ UNCHANGED properties
       ELSE /\ properties' = [properties EXCEPT ![key] = newValue]
            /\ lastCall' = [op |-> "setValue", key |-> key, value |-> newValue,
                            result |-> "ok",
                            hooks |-> Invoke("onSet", <<key, newValue>>)]
    /\ UNCHANGED <<validators, impl>>

\* registerValidator(key, validator)
registerValidator(key, validator) ==
    /\ validators' = [validators EXCEPT ![key] = validator]
    /\ lastCall' = [op |-> "registerValidator", key |-> key, value |-> Absent,
                    result |-> "ok", hooks |-> << >>]
    /\ UNCHANGED <<properties, impl>>

\* setNewProp(key, value): no validator is consulted
setNewProp(key, value) ==
    /\ properties' = [properties EXCEPT ![key] = value]
    /\ lastCall' = [op |-> "setNewProp", key |-> key, value |-> value,
                    result |-> "ok", hooks |-> Invoke("onSet", <<key, value>>)]
    /\ UNCHANGED <<validators, impl>>

\* removeProp(key)
removeProp(key) ==
    /\ properties' = [properties EXCEPT ![key] = Absent]
    /\ lastCall' = [op |-> "removeProp", key |-> key, value |-> Absent,
                    result |-> "ok", hooks |-> Invoke("onRemove", <<key>>)]
    /\ UNCHANGED <<validators, impl>>

\* resetProps(defaultProps): the validators stay
resetProps(defaultProps) ==
    /\ properties' = defaultProps
    /\ lastCall' = [op |-> "resetProps", key |-> "", value |-> Absent,
                    result |-> "ok", hooks |-> Invoke("onReset", << >>)]
    /\ UNCHANGED <<validators, impl>>

\* the property sets a store can be constructed with or reset to
PropSets == [Keys -> Values \cup {Absent}]

NoCall == [op |-> "none", key |-> "", value |-> Absent,
           result |-> "none", hooks |-> << >>]

\* new Service(initialProps) of a subclass implementing the hooks in impl
InitStore ==
    /\ properties \in PropSets
    /\ validators = [k \in Keys |-> NoValidator]
    /\ impl \in SUBSET Hooks
    /\ lastCall = NoCall

\* the store of a process that makes no use of it
InitStoreNone ==
    /\ InitStore
    /\ properties = [k \in Keys |-> Absent]
    /\ impl = {}

\* ------------------------------------------------- specification of VDS
InitVDS ==
    /\ promiseVDS = NULL
    /\ instanceVDS = NULL
    /\ promiseSt = [p \in PromiseIds |-> "none"]
    /\ closeCalls = [p \in PromiseIds |-> 0]
    /\ closeDone = [p \in PromiseIds |-> FALSE]
    /\ req = [c \in Callers |-> IdleReq]
    /\ sd = [s \in AllSd |-> IdleSd]
    /\ quiet = FALSE

\* the process before `new Application()`
InitProc ==
    /\ env \in Envs
    /\ app = "new"
    /\ shuttingDown = FALSE
    /\ listener = "none"
    /\ cb = "none"
    /\ exitCode = -1
    /\ signals = 0
    /\ handlerCalls = 0
    /\ closeInits = 0
    /\ routerSdCalls = 0

\* Spec: one VDS object used by arbitrary callers
Init ==
    /\ InitVDS
    /\ InitProc
    /\ InitRegNone
    /\ InitStoreNone
    /\ rq = IdleRq
    /\ env = "development"

Next ==
    \/ \E c \in Callers : getMiddleware(c) /\ UNCHANGED <<procVars, regVars, storeVars, rq>>
    \/ \E c \in Callers : transformTemplate(c) /\ UNCHANGED <<procVars, regVars, storeVars, rq>>
    \/ \E c \in Callers : errorVDS(c) /\ UNCHANGED <<procVars, regVars, storeVars, rq>>
    \/ \E p \in PromiseIds, ok \in BOOLEAN : CreateSettle(p, ok) /\ UNCHANGED <<procVars, regVars, storeVars, rq>>
    \/ \E c \in Callers : Deliver(c) /\ UNCHANGED <<procVars, regVars, storeVars, rq>>
    \/ \E s \in ShutdownIds : shutdownVDS(s) /\ UNCHANGED <<procVars, regVars, storeVars, rq>>
    \/ \E s \in ShutdownIds, ok \in BOOLEAN : ShutdownFinish(s, ok) /\ UNCHANGED <<procVars, regVars, storeVars, rq>>

Spec == Init /\ [][Next]_vars

\* ------------------------------------------------------------ the process
\* the VDS state is left as it is
VDSUnchanged == UNCHANGED vdsVars

\* process.exit(code): the "exit" event runs the VDS hook, which calls
\* shutdownVDS (VDS.ts:62); nothing runs after it.
Exit(code) ==
    /\ app' = "exited"
    /\ exitCode' = code
    /\ ShutdownBegin(ExitSd, "exitHook")

\* `new Application()`: AppRouter builds the CoreController, whose constructor
\* builds the VDS (registering its process hooks) and evaluates
\* this.VDS.getMiddleware() while building routesInternal.
Construct ==
    /\ app = "new"
    /\ app' = "constructed"
    /\ getMiddleware(1)
    /\ UNCHANGED <<env, shuttingDown, listener, cb, exitCode, signals,
                   handlerCalls, closeInits, routerSdCalls>>

\* Application.start: initialize() has completed (in development it awaited
\* the middleware promise of the development route), the listener is bound
\* and the shutdown handler is wired to SIGINT and SIGTERM.
Start ==
    /\ app = "constructed"
    /\ env = "development" => promiseSt[1] \in {"resolved", "rejected"}
    /\ app' = "listening"
    /\ listener' = "listening"
    /\ VDSUnchanged
    /\ UNCHANGED <<env, shuttingDown, cb, exitCode, signals,
                   handlerCalls, closeInits, routerSdCalls>>

\* the development GET * route is bound: register() got the middleware
DevRouteBound == env = "development" /\ promiseSt[1] = "resolved"

\* a request served by the development route calls transformTemplate
ServeDev(c) ==
    /\ app = "listening"
    /\ listener \in {"listening", "closing"}
    /\ DevRouteBound
    /\ transformTemplate(c)
    /\ UNCHANGED <<procVars, regVars, storeVars, rq>>

\* the handler without the shuttingDown guard
ShutdownHandler_NoGuard ==
    /\ handlerCalls' = handlerCalls + 1
    /\ shuttingDown' = TRUE
    /\ listener' = "closing"
    /\ closeInits' = closeInits + 1

\* the function returned by handleShutdown, up to server.close(...)
ShutdownHandler ==
    /\ handlerCalls' = handlerCalls + 1
    /\ IF shuttingDown
       THEN UNCHANGED <<shuttingDown, listener, closeInits>>
       ELSE /\ shuttingDown' = TRUE
            /\ listener' = "closing"
            /\ closeInits' = closeInits + 1

\* SIGINT: the VDS hook (registered first, in the constructor) calls
\* shutdownVDS, then the router's shutdown handler runs if it is wired.
SigInt ==
    /\ app \in {"constructed", "listening"}
    /\ signals < MaxSignals
    /\ signals' = signals + 1
    /\ \E s \in ShutdownIds : NextSd(s) /\ ShutdownBegin(s, "sigintHook")
    /\ IF app = "listening"
       THEN ShutdownHandler
       ELSE UNCHANGED <<handlerCalls, shuttingDown, listener, closeInits>>
    /\ UNCHANGED <<env, app, cb, exitCode, routerSdCalls>>

\* SIGTERM: only the router's shutdown handler listens
SigTerm ==
    /\ app = "listening"
    /\ signals < MaxSignals
    /\ signals' = signals + 1
    /\ ShutdownHandler
    /\ VDSUnchanged
    /\ UNCHANGED <<env, app, cb, exitCode, routerSdCalls>>

\* the callback given to server.close runs, with or without an error
ListenerClosed(ok) ==
    /\ app = "listening"
    /\ listener = "closing"
    /\ cb = "none"
    /\ IF ~ok
       THEN /\ listener' = "failed"
            /\ cb' = "done"
            /\ Exit(1)
            /\ UNCHANGED routerSdCalls
       ELSE IF env = "development"
       THEN /\ listener' = "closed"
            /\ cb' = "awaitVDS"
            /\ routerSdCalls' = routerSdCalls + 1
            /\ ShutdownBegin(RouterSd, "router")
            /\ UNCHANGED <<app, exitCode>>
       ELSE /\ listener' = "closed"
            /\ cb' = "done"
            /\ Exit(0)
            /\ UNCHANGED routerSdCalls
    /\ UNCHANGED <<env, shuttingDown, signals, handlerCalls, closeInits>>

\* the callback resumes after `await shutdownVDS()`
CallbackResume ==
    /\ app = "listening"
    /\ cb = "awaitVDS"
    /\ sd[RouterSd].pc = "done"
    /\ cb' = "done"
    /\ Exit(IF sd[RouterSd].result = "ok" THEN 0 ELSE 1)
    /\ UNCHANGED <<env, shuttingDown, listener, signals, handlerCalls,
                   closeInits, routerSdCalls>>

Running == app # "exited"

NextProc ==
    \/ Construct /\ UNCHANGED <<regVars, storeVars, rq>>
    \/ Start /\ UNCHANGED <<regVars, storeVars, rq>>
    \/ \E c \in Callers : ServeDev(c)
    \/ SigInt /\ UNCHANGED <<regVars, storeVars, rq>>
    \/ SigTerm /\ UNCHANGED <<regVars, storeVars, rq>>
    \/ \E ok \in BOOLEAN : ListenerClosed(ok) /\ UNCHANGED <<regVars, storeVars, rq>>
    \/ CallbackResume /\ UNCHANGED <<regVars, storeVars, rq>>
    \/ \E p \in PromiseIds, ok \in BOOLEAN :
          Running /\ CreateSettle(p, ok) /\ UNCHANGED <<procVars, regVars, storeVars, rq>>
    \/ \E c \in Callers : Running /\ Deliver(c) /\ UNCHANGED <<procVars, regVars, storeVars, rq>>
    \/ \E s \in AllSd, ok \in BOOLEAN :
          Running /\ ShutdownFinish(s, ok) /\ UNCHANGED <<procVars, regVars, storeVars, rq>>

\* SpecProc: the process from `new Application()` to process.exit
InitApp == InitVDS /\ InitProc /\ InitRegNone /\ InitStoreNone /\ rq = IdleRq

SpecProc == InitApp /\ [][NextProc]_vars

\* SpecReg: construction of the application and AppRouter.initialize()
InitRegSpec == InitVDS /\ InitProc /\ InitReg /\ InitStoreNone /\ rq = IdleRq

NextReg ==
    \/ Construct /\ UNCHANGED <<regVars, storeVars, rq>>
    \/ InitializeBegin /\ UNCHANGED <<vdsVars, procVars, storeVars, rq>>
    \/ \E should \in BOOLEAN : RegisterUserRoute(should) /\ UNCHANGED <<vdsVars, procVars, storeVars, rq>>
    \/ RegisterControllersDone /\ UNCHANGED <<vdsVars, procVars, storeVars, rq>>
    \/ RegisterServingRoute /\ UNCHANGED <<vdsVars, procVars, storeVars, rq>>
    \/ RegisterServingDone /\ UNCHANGED <<vdsVars, procVars, storeVars, rq>>
    \/ registerViews /\ UNCHANGED <<vdsVars, procVars, storeVars, rq>>
    \/ registerFallback /\ UNCHANGED <<vdsVars, procVars, storeVars, rq>>
    \/ \E ok \in BOOLEAN : CreateSettle(1, ok) /\ UNCHANGED <<procVars, regVars, storeVars, rq>>

SpecReg == InitRegSpec /\ [][NextReg]_vars

\* SpecStore: one PropertyStore under arbitrary calls
InitStoreSpec ==
    /\ InitVDS
    /\ InitProc
    /\ InitRegNone
    /\ InitStore
    /\ rq = IdleRq
    /\ env = "development"

NextStore ==
    \/ \E k \in Keys, v \in Values :
          setValue(k, v) /\ UNCHANGED <<vdsVars, procVars, regVars, rq>>
    \/ \E k \in Keys, f \in ValidatorFns :
          registerValidator(k, f) /\ UNCHANGED <<vdsVars, procVars, regVars, rq>>
    \/ \E k \in Keys, v \in Values :
          setNewProp(k, v) /\ UNCHANGED <<vdsVars, procVars, regVars, rq>>
    \/ \E k \in Keys :
          removeProp(k) /\ UNCHANGED <<vdsVars, procVars, regVars, rq>>
    \/ \E d \in PropSets :
          resetProps(d) /\ UNCHANGED <<vdsVars, procVars, regVars, rq>>

SpecStore == InitStoreSpec /\ [][NextStore]_vars

\* SpecServe: construction, initialize(), then requests through the table
InitServe ==
    /\ InitVDS
    /\ InitProc
    /\ InitRegFrom(ServeDecls)
    /\ InitStoreNone
    /\ rq = IdleRq

NextServe ==
    \/ Construct /\ UNCHANGED <<regVars, storeVars, rq>>
    \/ InitializeBegin /\ UNCHANGED <<vdsVars, procVars, storeVars, rq>>
    \/ \E should \in BOOLEAN : RegisterUserRoute(should) /\ UNCHANGED <<vdsVars, procVars, storeVars, rq>>
    \/ RegisterControllersDone /\ UNCHANGED <<vdsVars, procVars, storeVars, rq>>
    \/ RegisterServingRoute /\ UNCHANGED <<vdsVars, procVars, storeVars, rq>>
    \/ RegisterServingDone /\ UNCHANGED <<vdsVars, procVars, storeVars, rq>>
    \/ registerViews /\ UNCHANGED <<vdsVars, procVars, storeVars, rq>>
    \/ registerFallback /\ UNCHANGED <<vdsVars, procVars, storeVars, rq>>
    \/ \E ok \in BOOLEAN : CreateSettle(1, ok) /\ UNCHANGED <<procVars, regVars, storeVars, rq>>
    \/ \E m \in ReqMethods, p \in ReqPaths :
          Request(m, p) /\ UNCHANGED <<vdsVars, procVars, regVars, storeVars>>
    \/ \E ok \in BOOLEAN :
          RunValidate(ok) /\ UNCHANGED <<vdsVars, procVars, regVars, storeVars>>
    \/ \E outcome \in {"next", "respond", "error"} :
          RunHandler(outcome) /\ UNCHANGED <<vdsVars, procVars, regVars, storeVars>>
    \/ \E outcome \in {"respond", "next", "forward", "throw"}, hookOk \in BOOLEAN :
          RunEndpoint(outcome, hookOk) /\ UNCHANGED <<vdsVars, procVars, regVars, storeVars>>
    \/ \E c \in Callers, ok \in BOOLEAN :
          RunDevEndpoint(c, ok) /\ UNCHANGED <<procVars, regVars, storeVars>>
    \/ \E ok \in BOOLEAN :
          RunView(ok) /\ UNCHANGED <<vdsVars, procVars, regVars, storeVars>>
    \/ RunFallback /\ UNCHANGED <<vdsVars, procVars, regVars, storeVars>>

SpecServe == InitServe /\ [][NextServe]_vars

\* ------------------------------------------------------------ claims: VDS
\* the engine requests that arrived while no instance existed and the first
\* creation had not settled
EarlyCallers == {c \in Callers : req[c].pc # "idle" /\ req[c].early}

\* C1: single-flight creation. The requests that arrive while the VDS has no
\* instance and the first creation has not settled make exactly one
\* createServer call between them, all await that one promise, and all get
\* its outcome: the same engine, or the same failure.
C1_SingleFlight ==
    /\ FirstCreationOpen => CreateCalls <= 1
    /\ EarlyCallers # {} =>
         /\ Cardinality({c \in EarlyCallers : req[c].created}) = 1
         /\ \A c \in EarlyCallers : req[c].promise = 1
         /\ \A c \in EarlyCallers : req[c].pc = "done" =>
              /\ promiseSt[1] = "resolved" => req[c].result = "ok" /\ req[c].engine = 1
              /\ promiseSt[1] = "rejected" => req[c].result = "err" /\ req[c].engine = NULL
         /\ \A c, d \in EarlyCallers :
              req[c].pc = "done" /\ req[d].pc = "done" =>
                 req[c].result = req[d].result /\ req[c].engine = req[d].engine

\* C1 witness: three concurrent first requests, all resolved to engine 1
C1_Witness ==
    /\ Cardinality(EarlyCallers) >= 3
    /\ \A c \in EarlyCallers : req[c].pc = "done" /\ req[c].result = "ok" /\ req[c].engine = 1
    /\ CreateCalls = 1

\* C2 (as claimed): after a creation attempt fails the VDS holds no reference
\* to the failed attempt: no instance and no pending-creation reference, so
\* that the next request starts a fresh createServer call.
C2_NoPoisoning ==
    \A p \in PromiseIds :
        promiseSt[p] = "rejected" => promiseVDS # p

\* C3 (as claimed): at most one engine created and not yet closed, and at
\* most one creation attempt in flight, in every reachable state.
C3_AtMostOneEngine ==
    /\ Cardinality(LiveEngines) <= 1
    /\ Cardinality(InFlight) <= 1

C5_ShutdownNeverFails ==
    [][\A s \in AllSd :
          (sd[s].pc = "closing" /\ sd'[s].pc = "done") =>
             /\ sd'[s].result = "ok"
             /\ instanceVDS' = NULL
             /\ promiseVDS' = NULL]_vars

\* C5 witness: a shutdownVDS call whose close() failed has returned normally
\* and the VDS holds neither instance nor promise
C5_Witness ==
    \E s \in AllSd :
        /\ sd[s].pc = "done" /\ sd[s].closeOk = "failed" /\ sd[s].result = "ok"
        /\ instanceVDS = NULL /\ promiseVDS = NULL

\* -------------------------------------------------------- claims: process
\* C8 (as claimed): once the shutdown handler has been triggered, a
\* shutdownVDS call is started only in development and only after the
\* listener's close completed without error.
C8_ShutdownOrdering ==
    shuttingDown =>
        \A s \in AllSd :
            sd[s].pc # "idle" => env = "development" /\ listener = "closed"

\* C9: process-level shutdown guard. However often the shutdown handler is
\* invoked, server.close is called at most once and the handler's callback
\* calls shutdownVDS at most once; an invocation after the first changes
\* nothing of the router, the listener or the process.
C9_ShutdownGuard ==
    /\ [](closeInits <= 1 /\ routerSdCalls <= 1)
    /\ [][(handlerCalls >= 1 /\ handlerCalls' > handlerCalls) =>
             UNCHANGED <<shuttingDown, listener, closeInits, cb, app, exitCode,
                         routerSdCalls>>]_vars

\* C9 witness: the handler ran twice, the listener was closed once and
\* the callback started one shutdownVDS
C9_Witness ==
    /\ handlerCalls >= 2
    /\ closeInits = 1
    /\ routerSdCalls = 1
    /\ sd[RouterSd].pc # "idle"

\* C10 (as claimed): the process exits with code 1 when the listener close
\* failed or the engine close of the handler's shutdownVDS failed, and with
\* code 0 when both succeeded.
C10_ExitCode ==
    app = "exited" =>
        /\ (listener = "failed" \/ sd[RouterSd].closeOk = "failed") => exitCode = 1
        /\ (listener = "closed" /\ sd[RouterSd].closeOk # "failed") => exitCode = 0

\* --------------------------------------------------- claims: registration
\* the table entries bound for descriptor idx of controller ctrl
BoundAt(ctrl, idx) ==
    {i \in DOMAIN table :
        table[i].kind = "route" /\ table[i].ctrl = ctrl /\ table[i].idx = idx}

Opposite(scope) == IF scope = "production" THEN "development" ELSE "production"

\* descriptors i and j of decl: same controller, method and path, opposite scopes
OppositePair(i, j) ==
    /\ decl[i].ctrl = decl[j].ctrl
    /\ decl[i].d.method = decl[j].d.method
    /\ decl[i].d.path = decl[j].d.path
    /\ decl[i].d.envScope # "none"
    /\ decl[j].d.envScope = Opposite(decl[i].d.envScope)

C7_ExactlyOneServing ==
    (initPc \in {"views", "fallback", "done"} /\ ~servingFailed) =>
        Cardinality({k \in DOMAIN table :
                        table[k].kind = "route" /\ table[k].ctrl = CoreCtrl}) = 1

\* the phase of initialize() a table entry belongs to: 1 user controllers,
\* 2 the CoreController, 3 views, 4 the 404 fallback
Phase(e) ==
    IF e.kind = "fallback" THEN 4
    ELSE IF e.kind = "view" THEN 3
    ELSE IF e.ctrl = CoreCtrl THEN 2
    ELSE 1

\* C11 (as claimed): initialize() binds in a fixed order: the routes of the
\* user controllers, then those of the CoreController, then the view routes,
\* which are bound only when the environment (development when NODE_ENV is
\* unset) is not development, then the 404 fallback; whichever phases failed,
\* the fallback is the last entry of the table when initialize() completes.
C11_InitializeOrder ==
    /\ \A i, j \in DOMAIN table :
          i < j => Phase(table[i]) <= Phase(table[j])
    /\ (\E i \in DOMAIN table : table[i].kind = "view") =>
          getEnv # "development"
    /\ initPc = "done" =>
          /\ table # << >>
          /\ table[Len(table)].kind = "fallback"
          /\ Cardinality({i \in DOMAIN table : table[i].kind = "fallback"}) = 1

\* C12: registration order and uniqueness. With register() of each
\* controller invoked once, every descriptor is bound at most once, the
\* bound routes of one controller are in the table in the order of their
\* declaration, and the routes of the user controllers are in the order the
\* controllers were supplied.
C12_RegistrationOrder ==
    /\ \A i \in DOMAIN decl : Cardinality(BoundAt(decl[i].ctrl, i)) <= 1
    /\ \A q \in 1..Len(CoreRoutes) : Cardinality(BoundAt(CoreCtrl, q)) <= 1
    /\ \A a, b \in DOMAIN table :
          (a < b /\ table[a].kind = "route" /\ table[b].kind = "route") =>
             /\ table[a].ctrl = table[b].ctrl => table[a].idx < table[b].idx
             /\ (table[a].ctrl # CoreCtrl /\ table[b].ctrl # CoreCtrl) =>
                   table[a].ctrl <= table[b].ctrl

\* C12 witness: two controllers were supplied, the first bound two routes
\* and the second one, and initialize() is done
C12_Witness ==
    /\ initPc = "done"
    /\ Cardinality({k \in DOMAIN table : table[k].kind = "route" /\ table[k].ctrl = 1}) >= 2
    /\ Cardinality({k \in DOMAIN table : table[k].kind = "route" /\ table[k].ctrl = 2}) >= 1

\* -------------------------------------------------- claims: VDS lifecycle
\* C18 (as claimed): shutdown before ready. A shutdownVDS call made while a
\* creation is in flight and there is no live instance returns successfully
\* and leaves the VDS as when uninitialized: no instance and no creation in
\* flight; and while no engine request has been made since a shutdownVDS call
\* returned, no engine becomes the live instance.
C18_ShutdownBeforeReady ==
    /\ [][\A s \in AllSd :
             (sd[s].pc = "idle" /\ sd'[s].pc # "idle"
                /\ instanceVDS = NULL /\ InFlight # {}) =>
                /\ sd'[s].pc = "done"
                /\ sd'[s].result = "ok"
                /\ instanceVDS' = NULL
                /\ promiseVDS' = NULL
                /\ InFlight' = {}]_vars
    /\ [][\A p \in PromiseIds :
             (quiet /\ promiseSt[p] = "pending") => instanceVDS' # p]_vars

\* C19 (as claimed): an engine request never hands its caller an engine on
\* which close() has been called, and every engine whose creation completed
\* and on which close() was not called is the one held as live instance.
C19_HandleLifetime ==
    /\ [][\A c \in Callers :
             (req[c].pc # "done" /\ req'[c].pc = "done" /\ req'[c].engine # NULL) =>
                closeCalls[req'[c].engine] = 0]_vars
    /\ [](\A e \in PromiseIds :
             (promiseSt[e] = "resolved" /\ closeCalls[e] = 0) => instanceVDS = e)

\* ------------------------------------------------- claims: PropertyStore
\* C17: setValue(key, v). If a validator is registered for key and rejects
\* v, setValue raises a validation error, the properties are exactly as
\* before the call (getValue(key) returns the pre-call value) and the on-set
\* hook is not invoked; otherwise v is stored under key, nothing else
\* changes, and the on-set hook (when implemented) is invoked once, with
\* (key, v).
C17_SetValue ==
    [][lastCall'.op = "setValue" =>
          LET k == lastCall'.key
              v == lastCall'.value
          IN IF validators[k] # NoValidator /\ ~Accepts(validators[k], v)
             THEN /\ lastCall'.result = "ValidationError"
                  /\ properties' = properties
                  /\ getValue(properties', k) = getValue(properties, k)
                  /\ lastCall'.hooks = << >>
             ELSE /\ lastCall'.result = "ok"
                  /\ getValue(properties', k) = v
                  /\ \A j \in Keys \ {k} : properties'[j] = properties[j]
                  /\ lastCall'.hooks = IF "onSet" \in impl
                                       THEN << <<"onSet", k, v>> >>
                                       ELSE << >>]_vars

\* C17 witness: a validator is registered for key a, setValue(a, 0) was
\* rejected by it, the stored value of a is still the one set before, and
\* the subclass implements onSet
C17_Witness ==
    /\ validators["a"] = "isPositive"
    /\ lastCall.op = "setValue" /\ lastCall.key = "a" /\ lastCall.value = 0
    /\ lastCall.result = "ValidationError"
    /\ getValue(properties, "a") = 2
    /\ "onSet" \in impl

\* ----------------------------------------- claims: registration, continued
\* the iteration of register() for descriptor ri of decl is the step taken
IterationRuns ==
    /\ initPc = "controllers"
    /\ ri <= Len(decl)
    /\ (ri' # ri \/ initPc' # initPc)

\* C13: configuration error. When register() reaches a descriptor that
\* neither shouldRegister nor envScope skips and whose method is not a
\* recognized one, register() fails and the error reaches its caller (the
\* catch of registerControllers), the descriptor is not bound, and no later
\* descriptor of that controller is bound.
C13_InvalidMethod ==
    /\ [][(/\ IterationRuns
           /\ ~(decl[ri].d.shouldRegister /\ srLog'[ri].result = "false")
           /\ ~EnvScopeSkips(decl[ri].d)
           /\ ~isRequestMethod(decl[ri].d.method)) =>
             /\ ctrlFailed'
             /\ ri' = ri
             /\ table' = table]_vars
    /\ [](ctrlFailed =>
             \A j \in DOMAIN decl :
                 (j >= ri /\ decl[j].ctrl = decl[ri].ctrl) =>
                    BoundAt(decl[j].ctrl, j) = {})

\* C13 witness: the first controller bound its first route, its second
\* descriptor has an unrecognized method and made register() fail, its third
\* descriptor is a recognized one that no test skips, and initialize() is
\* done
C13_Witness ==
    /\ initPc = "done"
    /\ ctrlFailed
    /\ ri = 2
    /\ Len(decl) = 3
    /\ BoundAt(decl[1].ctrl, 1) # {}
    /\ ~isRequestMethod(decl[2].d.method)
    /\ decl[3].ctrl = decl[2].ctrl
    /\ isRequestMethod(decl[3].d.method)
    /\ ~EnvScopeSkips(decl[3].d)
    /\ BoundAt(decl[3].ctrl, 3) = {}

\* ------------------------------------------------------- claims: requests
\* the positions of the log where next(error) was called with error err
\* while the request was in table entry k
Forwarded(k, err) ==
    {j \in DOMAIN rq.log :
        /\ rq.log[j].fn = "nextError"
        /\ rq.log[j].entry = k
        /\ rq.log[j].res = err}

\* C14 (as claimed): for every request whose endpoint function throws or
\* rejects, next(error) is called with that error exactly once, whether
\* onError is absent, returns normally, or itself fails; when onError is
\* present it is invoked after the failure and before the forwarding.
C14_ErrorPropagation ==
    \A i \in DOMAIN rq.log :
        (rq.log[i].fn = "endpoint" /\ rq.log[i].res = "throw") =>
           LET k == rq.log[i].entry
               hooks == {h \in DOMAIN rq.log :
                            rq.log[h].fn = "onError" /\ rq.log[h].entry = k}
           IN /\ Cardinality(Forwarded(k, "endpoint")) = 1
              /\ IF DescOf(table[k]).errorFn
                 THEN /\ Cardinality(hooks) = 1
                      /\ \A h \in hooks, j \in Forwarded(k, "endpoint") :
                            i < h /\ h < j
                 ELSE hooks = {}

\* C15: shouldRegister is evaluated exactly once per descriptor per
\* register() call: only by the iteration of register() for its descriptor,
\* also when the envScope test then skips the descriptor, and never while a
\* request is served; a descriptor whose predicate returned false is not
\* bound, then or later, and no request is ever handled by a route of it.
C15_ShouldRegisterOnce ==
    /\ [][\A i \in DOMAIN decl :
             srLog'[i] # srLog[i] =>
                /\ IterationRuns
                /\ i = ri
                /\ decl[i].d.shouldRegister
                /\ srLog[i].calls = 0
                /\ srLog'[i].calls = 1
                /\ rq.pc = "idle"]_vars
    /\ [](\A i \in DOMAIN decl :
             /\ (i < ri /\ decl[i].d.shouldRegister) => srLog[i].calls = 1
             /\ ~decl[i].d.shouldRegister => srLog[i].calls = 0
             /\ srLog[i].result = "false" =>
                   /\ BoundAt(decl[i].ctrl, i) = {}
                   /\ \A x \in DOMAIN rq.log :
                         ~(/\ table[rq.log[x].entry].kind = "route"
                           /\ table[rq.log[x].entry].ctrl = decl[i].ctrl
                           /\ table[rq.log[x].entry].idx = i))

\* C15 witness: the predicate of the only descriptor was called once and
\* returned false; later a GET /a was served and ended at the 404 fallback
C15_Witness ==
    /\ Len(decl) = 1
    /\ srLog[1] = [calls |-> 1, result |-> "false"]
    /\ rq.pc = "done"
    /\ rq.method = "get" /\ rq.path = "/a"
    /\ rq.out = "notFound"

\* C16 (as claimed): after initialize(), in every environment that is not
\* development, the 404 fallback answers the requests that match no
\* registered route: GET /missing, unless a function forwards an error, ends
\* with the 404 page, GET / and GET /test do not.
C16_FallbackExact ==
    (rq.pc = "done" /\ rq.method = "get" /\ getEnv # "development") =>
        /\ rq.path = "/missing" => rq.out \in {"notFound", "error"}
        /\ rq.path \in {"/", "/test"} => rq.out # "notFound"

\* C20: validation short-circuit. For a bound descriptor with validationFn,
\* the functions a request runs in its route are, in this order: validate,
\* the handlers in declared order, the endpoint. When validate fails,
\* next(error) is called once with its error, the request ends on the error
\* path and no handler and no endpoint of the route ran; when it succeeds
\* the request goes on to the first handler, or to the endpoint when there
\* is no handler.
C20_ValidationFirst ==
    \A k \in DOMAIN table :
        (table[k].kind = "route" /\ DescOf(table[k]).validationFn) =>
           LET d == DescOf(table[k])
               IsOwn(x) == x.entry = k /\ x.fn \in {"validate", "handler", "endpoint"}
               seg == SelectSeq(rq.log, IsOwn)
           IN /\ Len(seg) <= d.nHandlers + 2
              /\ \A i \in DOMAIN seg :
                    /\ i = 1 => seg[i].fn = "validate"
                    /\ (1 < i /\ i <= d.nHandlers + 1) =>
                          seg[i].fn = "handler" /\ seg[i].n = i - 1
                    /\ i = d.nHandlers + 2 => seg[i].fn = "endpoint"
              /\ (seg # << >> /\ seg[1].res = "fail") =>
                    /\ Len(seg) = 1
                    /\ Cardinality(Forwarded(k, "validation")) = 1
                    /\ rq.pc = "done"
                    /\ rq.out = "error"
              /\ (Len(seg) = 1 /\ seg[1].res = "ok") =>
                    /\ rq.pc = "running"
                    /\ rq.entry = k
                    /\ Current = IF d.nHandlers > 0
                                 THEN Item("handler", 1)
                                 ELSE Item("endpoint", 0)
              /\ (rq.pc = "running" /\ rq.entry = k /\ rq.pos = 1) =>
                    Current.fn = "validate"

\* C20 witness: a GET /a reached the route of a descriptor with validationFn
\* and two handlers, validate failed, and the request ended on the error
\* path with nothing else invoked
C20_Witness ==
    /\ rq.pc = "done"
    /\ rq.out = "error"
    /\ Len(rq.log) = 2
    /\ rq.log[1].fn = "validate" /\ rq.log[1].res = "fail"
    /\ rq.log[2].fn = "nextError" /\ rq.log[2].res = "validation"
    /\ table[rq.log[1].entry].kind = "route"
    /\ DescOf(table[rq.log[1].entry]).nHandlers >= 2

ViewPathSet == {ViewPaths[i] : i \in 1..Len(ViewPaths)}

\* C22 (as claimed): view reachability. In every environment that is not
\* development, after initialize(), a GET to a path of the view map is
\* handled by the view route of that path and by nothing else: not by a
\* route of the CoreController and not by the 404 fallback.
C22_ViewReachable ==
    (/\ rq.pc = "done"
     /\ rq.method = "get"
     /\ rq.path \in ViewPathSet
     /\ getEnv # "development") =>
        /\ rq.log # << >>
        /\ \A x \in DOMAIN rq.log :
              /\ table[rq.log[x].entry].kind = "view"
              /\ table[rq.log[x].entry].path = rq.path
        /\ rq.out \in {"responded", "error"}

\* C23 (as claimed): lazy creation scoped to development. A createServer
\* call is made only by an engine request, and in a process whose
\* environment is production none is ever made: constructing the router and
\* its CoreController and running initialize() start none.
C23_LazyCreation ==
    /\ CreateCalls > 0 => \E c \in Callers : req[c].pc # "idle"
    /\ getEnv = "production" => CreateCalls = 0

\* C24 (as claimed): close() is called at most once on every engine, under
\* any interleaving of the shutdownVDS calls of the router's shutdown
\* handler and of the "exit" and "SIGINT" hooks of the VDS.
C24_CloseOnce ==
    \A e \in PromiseIds : closeCalls[e] <= 1

\* a table entry bound for a user-supplied controller
UserRoute(e) == e.kind = "route" /\ e.ctrl # CoreCtrl

\* C25: the user-controller phase stops at the first failure. When
\* register() of a controller fails, what was bound before stays bound (the
\* routes of the earlier controllers and the earlier routes of the failing
\* one), nothing of a user controller is registered afterwards (no route
\* bound, no shouldRegister evaluated), and the CoreController, views and
\* fallback phases still run.
C25_StopAtFirstFailure ==
    /\ [][\A k \in DOMAIN table :
             k \in DOMAIN table' /\ table'[k] = table[k]]_vars
    /\ [][ctrlFailed =>
             /\ ri' = ri
             /\ srLog' = srLog
             /\ \A k \in DOMAIN table' : k > Len(table) => ~UserRoute(table'[k])]_vars
    /\ [](ctrlFailed =>
             /\ \A j \in DOMAIN decl :
                   j >= ri => BoundAt(decl[j].ctrl, j) = {}
             /\ \A j \in DOMAIN decl :
                   (/\ j < ri
                    /\ ~(decl[j].d.shouldRegister /\ srLog[j].result = "false")
                    /\ ~EnvScopeSkips(decl[j].d)) =>
                      Cardinality(BoundAt(decl[j].ctrl, j)) = 1
             /\ \A j \in DOMAIN decl : j > ri => srLog[j].calls = 0
             /\ initPc \in {"serving", "views", "fallback", "done"}
             /\ initPc = "done" =>
                   /\ servingFailed \/ si > Len(CoreRoutes)
                   /\ table[Len(table)].kind = "fallback")

\* C25 witness: the first controller bound its first route and failed at its
\* second descriptor; the second controller, whose descriptor no test would
\* skip, was not registered; the CoreController route and the fallback are
\* bound and initialize() is done
C25_Witness ==
    /\ initPc = "done"
    /\ ctrlFailed
    /\ Len(decl) = 3
    /\ ri = 2
    /\ decl[2].ctrl = 1
    /\ decl[3].ctrl = 2
    /\ BoundAt(1, 1) # {}
    /\ isRequestMethod(decl[3].d.method)
    /\ ~decl[3].d.shouldRegister
    /\ ~EnvScopeSkips(decl[3].d)
    /\ BoundAt(2, 3) = {}
    /\ \E k \in DOMAIN table : table[k].kind = "route" /\ table[k].ctrl = CoreCtrl
    /\ table[Len(table)].kind = "fallback"

=============================================================================
